---- MODULE Spec2Model ----
(***************************************************************************)
(* MSI-Explorer: the Maldi_MS spectral data model (_maldi_ms_data.py), the *)
(* whole-dataset and ROI aggregators (_true_mean_spec.py,                  *)
(* _spectre_du_roi.py) and the widget handlers that drive them             *)
(* (_widget.py, _selection.py).                                            *)
(*                                                                         *)
(* Numbers.  float64 values are modelled in fixed point:                   *)
(*   - an intensity v stands for v / IntScale,                             *)
(*   - an m/z value m stands for m / Da dalton, Da = MzPerStep * 10^4, so  *)
(*     that rounding to 4 decimals is rounding to a multiple of MzPerStep, *)
(*   - NaN stands for the IEEE not-a-number.                               *)
(* Python lists are 0-based, TLA+ sequences 1-based: an index i of the     *)
(* source is position i + 1 of the sequence.                               *)
(*                                                                         *)
(* Four specifications.  Spec: the methods of one Maldi_MS object called   *)
(* in any order.  SpecUI: the plugin's handlers (_open_file, preprocess,   *)
(* the mean-spectrum buttons) on the GUI thread and the worker threads     *)
(* they start; normalize is taken spectrum by spectrum there, because a    *)
(* worker reads the lists of the object while the GUI thread rebuilds      *)
(* them.  SpecCursor: the same handlers together with their calls of       *)
(* setOverrideCursor and restoreOverrideCursor.  SpecMeta: the text edits  *)
(* in the manual rows of the metadata window (_metadata.py).               *)
(***************************************************************************)
EXTENDS Integers, Sequences, FiniteSets, TLC

\* ------------------------------------------------------------------ bounds
IntScale == 12          \* fixed-point units per 1.0 of intensity
MzPerStep == 10         \* fixed-point units per 0.0001 Da of m/z
NumSpectra == 2         \* N, spectra per dataset
MaxLen == 3             \* samples per loaded spectrum
MzOffset == 4           \* m/z shift between consecutive spectra, in units
MaxFilters == 2         \* noise_reduction / remove_hotspots calls per dataset
MaxObjects == 2         \* files opened in a session
MaxRuns == 1            \* runs of preprocess in a session
MaxWorkers == 1         \* workers in flight at a time
MaxRows == 4            \* manual rows of the metadata window
MaxCursor == 1          \* override cursors on the stack
BatchSize == 3          \* spectra per batch (1000 in the program)

\* ------------------------------------------------------- program constants
Decimals == 4           \* df.mz.round(4)
DefaultMz0Steps == 1210444  \* normalize(..., mz0 = 121.0444, ...) in 0.0001 Da
DefaultTolSteps == 30   \* normalize(..., tol = 0.003) in 0.0001 Da
PeakTarget == 100       \* factor = 100.0 / maximum
BatchDecimals == 3      \* df.x.round(3) of the batched aggregation
NaN == -1               \* np.mean of an empty array, and what it propagates to

RECURSIVE Pow10(_)
Pow10(n) == IF n = 0 THEN 1 ELSE 10 * Pow10(n - 1)

Da == MzPerStep * Pow10(Decimals)

\* --------------------------------------------------------- float arithmetic
IsNaN(a) == a = NaN

FAdd(a, b) == IF IsNaN(a) \/ IsNaN(b) THEN NaN ELSE a + b

FSub(a, b) == IF IsNaN(a) \/ IsNaN(b) THEN NaN ELSE a - b

\* a / b on intensities.  No reachable divisor is 0 (every non-zero stored
\* intensity is >= IntScale); NaN divisors come from empty means.
FDiv(a, b) ==
    IF IsNaN(a) \/ IsNaN(b) \/ b = 0 THEN NaN ELSE (a * IntScale) \div b

\* a * b on intensities
FMul(a, b) == IF IsNaN(a) \/ IsNaN(b) THEN NaN ELSE (a * b) \div IntScale

\* a != 0.0 (NaN != 0.0 is True)
NonZero(a) == a # 0

\* a < b and a > b on floats (False as soon as one side is NaN)
FLess(a, b) == ~IsNaN(a) /\ ~IsNaN(b) /\ a < b

FGreater(a, b) == FLess(b, a)

RECURSIVE Isqrt(_, _)
Isqrt(x, r) == IF (r + 1) * (r + 1) > x THEN r ELSE Isqrt(x, r + 1)

\* np.sqrt on an intensity
FSqrt(a) == IF IsNaN(a) THEN NaN ELSE Isqrt(a * IntScale, 0)

\* ------------------------------------------------------------ array helpers
RECURSIVE SumSeq(_)
SumSeq(s) == IF s = <<>> THEN 0 ELSE FAdd(Head(s), SumSeq(Tail(s)))

\* a[mask]
RECURSIVE Select(_, _)
Select(s, mask) ==
    IF s = <<>> THEN <<>>
    ELSE (IF Head(mask) THEN <<Head(s)>> ELSE <<>>) \o Select(Tail(s), Tail(mask))

RECURSIVE Concat(_)
Concat(ss) == IF ss = <<>> THEN <<>> ELSE Head(ss) \o Concat(Tail(ss))

RECURSIVE InsertSorted(_, _)
InsertSorted(x, s) ==
    IF s = <<>> THEN <<x>>
    ELSE IF x <= Head(s) THEN <<x>> \o s
    ELSE <<Head(s)>> \o InsertSorted(x, Tail(s))

RECURSIVE np_sort(_)
np_sort(s) == IF s = <<>> THEN <<>> ELSE InsertSorted(Head(s), np_sort(Tail(s)))

HasNaN(s) == \E k \in 1..Len(s) : IsNaN(s[k])

\* np.mean: NaN for an empty array (RuntimeWarning, no exception)
np_mean(s) ==
    IF s = <<>> \/ HasNaN(s) THEN NaN ELSE SumSeq(s) \div Len(s)

\* np.median: NaN for an empty array
np_median(s) ==
    IF s = <<>> \/ HasNaN(s) THEN NaN
    ELSE LET a == np_sort(s)
             n == Len(a)
         IN  IF n % 2 = 1 THEN a[(n + 1) \div 2]
             ELSE (a[n \div 2] + a[n \div 2 + 1]) \div 2

\* np.percentile(a, q), linear interpolation, on a non-empty array
np_percentile(s, q) ==
    IF HasNaN(s) THEN NaN
    ELSE LET a == np_sort(s)
             n == Len(a)
             pos == q * (n - 1)
             lo == pos \div 100 + 1
             rem == pos % 100
         IN  IF rem = 0 THEN a[lo]
             ELSE a[lo] + ((a[lo + 1] - a[lo]) * rem) \div 100

\* -------------------------------------------------------------- spectra
Spectrum(mz, ints) == [mz |-> mz, int |-> ints]

EmptySpectrum == Spectrum(<<>>, <<>>)

\* a label of the normalisation: f"{norm}" or f"{norm} {mz0}"
Label(norm, ref) == [norm |-> norm, ref |-> ref]

NoRef == 0

\* ---------------------------------------------------------------- results
\* what a call gives back: a value, or the exception it raised
Ok(v) == [err |-> "", val |-> v]

Raise(e, dflt) == [err |-> e, val |-> dflt]

\* ================================================================ Maldi_MS
\* An object of the class is the record
\*   [p, spectra, new_spectra, coordinates, is_norm, is_centroid, norm_type,
\*    num_spectra]
\* where p is the ImzMLParser: the file's spectra and coordinates and the
\* two extents of imzmldict.

Parser(file_spectra, coords, max_x, max_y) ==
    [spectra |-> file_spectra, coordinates |-> coords,
     max_x |-> max_x, max_y |-> max_y]

\* Maldi_MS.__init__
Maldi_MS(parser) ==
    [p |-> parser,
     spectra |-> parser.spectra,
     new_spectra |-> <<>>,
     coordinates |-> parser.coordinates,
     is_norm |-> FALSE,
     is_centroid |-> FALSE,
     norm_type |-> Label("original", NoRef),
     num_spectra |-> Len(parser.coordinates)]

\* Maldi_MS.check_i (i already an int)
check_i(self, i) ==
    IF i < 0 THEN 0
    ELSE IF i >= self.num_spectra THEN self.num_spectra - 1
    ELSE i

\* a[i] of a Python list, i >= 0 or negative (counted from the end)
PyIndex(list, i, dflt) ==
    LET n == Len(list)
        k == IF i < 0 THEN i + n ELSE i
    IN  IF k < 0 \/ k >= n THEN Raise("IndexError", dflt) ELSE Ok(list[k + 1])

\* a lookup that gives the last spectrum at (x, y, 1)
get_index_last(self, y, x) ==
    LET hits == {k \in 1..Len(self.coordinates) :
                    self.coordinates[k] = <<x, y, 1>>}
    IN  IF hits = {} THEN -1
        ELSE (CHOOSE k \in hits : \A j \in hits : k >= j) - 1

\* Maldi_MS.get_index
get_index(self, y, x) ==
    LET hits == {k \in 1..Len(self.coordinates) :
                    self.coordinates[k] = <<x, y, 1>>}
    IN  IF hits = {} THEN -1
        ELSE (CHOOSE k \in hits : \A j \in hits : k <= j) - 1

\* Maldi_MS.get_coordinates
get_coordinates(self, i) ==
    PyIndex(self.coordinates, check_i(self, i), <<0, 0, 0>>)

\* the overlay is authoritative
HasOverlay(self) == self.is_norm \/ self.is_centroid

\* Maldi_MS.get_spectrum
get_spectrum(self, i) ==
    IF HasOverlay(self)
    THEN PyIndex(self.new_spectra, check_i(self, i), EmptySpectrum)
    ELSE PyIndex(self.spectra, check_i(self, i), EmptySpectrum)

\* Maldi_MS.get_all_spectra
get_all_spectra(self) ==
    IF HasOverlay(self) THEN self.new_spectra ELSE self.spectra

\* the maximum of a non-empty array
RECURSIVE np_max(_)
np_max(s) ==
    IF Len(s) = 1 THEN Head(s)
    ELSE LET m == np_max(Tail(s))
         IN  IF IsNaN(Head(s)) \/ IsNaN(m) THEN NaN
             ELSE IF Head(s) >= m THEN Head(s) ELSE m

MapSeq(s, Op(_)) == [k \in 1..Len(s) |-> Op(s[k])]

NonZeroOf(ints) == Select(ints, [k \in 1..Len(ints) |-> NonZero(ints[k])])

DefaultMz0 == DefaultMz0Steps * MzPerStep

DefaultTol == DefaultTolSteps * MzPerStep

\* a divisor guarded against the empty statistic: 1.0 in place of NaN
norm_divisor_guarded(norm, ints) ==
    LET intensities2 == NonZeroOf(ints)
    IN  IF intensities2 = <<>> THEN IntScale
        ELSE IF norm = "tic" THEN np_mean(intensities2)
        ELSE IF norm = "rms"
        THEN FSqrt(np_mean([k \in 1..Len(intensities2) |->
                               FMul(intensities2[k], intensities2[k])]))
        ELSE np_median(intensities2)

\* the divisor of the methods tic, rms and median: a statistic of the
\* non-zero intensities
norm_divisor(norm, ints) ==
    LET intensities2 == NonZeroOf(ints)
    IN  CASE norm = "tic" -> np_mean(intensities2)
          [] norm = "rms" ->
                FSqrt(np_mean(MapSeq(intensities2, LAMBDA v : FMul(v, v))))
          [] norm = "median" -> np_median(intensities2)

\* the factor of the method peak
peak_factor(spectrum, mz0, tol) ==
    LET filter3 == [k \in 1..Len(spectrum.mz) |->
                        spectrum.mz[k] >= mz0 - tol /\ spectrum.mz[k] <= mz0 + tol]
        window == Select(spectrum.int, filter3)
    IN  IF window # <<>>
        THEN (IF FGreater(np_max(window), 0)
              THEN FDiv(PeakTarget * IntScale, np_max(window))
              ELSE 0)
        ELSE 0

\* one iteration of a loop of normalize: the spectrum appended to new_spectra
normalize_one(spectrum, norm, mz0, tol) ==
    IF norm = "peak"
    THEN Spectrum(spectrum.mz,
                  MapSeq(spectrum.int,
                         LAMBDA v : FMul(v, peak_factor(spectrum, mz0, tol))))
    ELSE Spectrum(spectrum.mz,
                  MapSeq(spectrum.int,
                         LAMBDA v : FDiv(v, norm_divisor(norm, spectrum.int))))

Scaling == {"tic", "rms", "median", "peak"}

\* the label normalize leaves in norm_type
norm_label(norm, mz0) ==
    IF norm = "peak" THEN Label(norm, mz0) ELSE Label(norm, NoRef)

\* the spectra normalize reads: always the list self.spectra
normalize_input(self) == self.spectra

\* Maldi_MS.normalize
normalize(self, norm, mz0, tol) ==
    IF norm = "original"
    THEN [self EXCEPT !.new_spectra = <<>>,
                      !.norm_type = Label(norm, NoRef),
                      !.is_norm = FALSE]
    ELSE IF norm \in Scaling
    THEN [self EXCEPT !.new_spectra =
                          MapSeq(normalize_input(self),
                                 LAMBDA sp : normalize_one(sp, norm, mz0, tol)),
                      !.norm_type = norm_label(norm, mz0),
                      !.is_norm = TRUE]
    ELSE [self EXCEPT !.new_spectra = <<>>,
                      !.norm_type = Label(norm, NoRef)]

\* ------------------------------------------------------------- centroiding
\* np.cumsum, 0-based: CumSum(s)[k + 1] is csum[k]
RECURSIVE CumSumFrom(_, _)
CumSumFrom(s, acc) ==
    IF s = <<>> THEN <<>>
    ELSE <<FAdd(acc, Head(s))>> \o CumSumFrom(Tail(s), FAdd(acc, Head(s)))

CumSum(s) == CumSumFrom(s, 0)

\* one trapezoid of integrate.cumulative_trapezoid(intensities, x=mz)
Trapezoid(mz, ints, k) ==
    IF IsNaN(ints[k]) \/ IsNaN(ints[k - 1]) \/ IsNaN(mz[k]) \/ IsNaN(mz[k - 1])
    THEN NaN
    ELSE ((mz[k] - mz[k - 1]) * (ints[k] + ints[k - 1])) \div (2 * Da)

\* integrate.cumulative_trapezoid(intensities, x=mz, initial=0.0)
cumulative_trapezoid(mz, ints) ==
    CumSum([k \in 1..Len(mz) |-> IF k = 1 THEN 0 ELSE Trapezoid(mz, ints, k)])

\* np.where(diff == d)[0] for diff = np.diff(mask): 0-based, ascending
where_diff(mask, d) ==
    Select([k \in 1..(Len(mask) - 1) |-> k - 1],
           [k \in 1..(Len(mask) - 1) |-> mask[k + 1] - mask[k] = d])

\* start_indices of centroid_data
start_indices(ints) ==
    LET n == Len(ints)
        mask == [k \in 1..n |-> IF NonZero(ints[k]) THEN 1 ELSE 0]
        rises == where_diff(mask, 1)
    IN  IF mask[1] = 1 THEN <<0>> \o rises ELSE rises

\* end_indices of centroid_data
end_indices(ints) ==
    LET n == Len(ints)
        mask == [k \in 1..n |-> IF NonZero(ints[k]) THEN 1 ELSE 0]
        falls == where_diff(mask, -1)
        ends == [j \in 1..Len(falls) |-> falls[j] + 1]
    IN  IF mask[n] = 1 THEN Append(ends, n - 1) ELSE ends

\* sum over m/z * intensity of one peak: csum_mz_int[end] - csum_mz_int[start]
peak_sum_mz_int(mz, ints, start, end) ==
    LET csum_mz_int ==
            CumSum([k \in 1..Len(mz) |->
                        IF IsNaN(mz[k]) \/ IsNaN(ints[k]) THEN NaN
                        ELSE mz[k] * ints[k]])
    IN  FSub(csum_mz_int[end + 1], csum_mz_int[start + 1])

\* sum over the intensities of one peak: csum_int[end] - csum_int[start]
peak_sum_int(ints, start, end) ==
    LET csum_int == CumSum(ints)
    IN  FSub(csum_int[end + 1], csum_int[start + 1])

\* centroid_numba, compiled with numba's default error model: a float
\* division by zero raises ZeroDivisionError
centroid_numba(mz, ints, quadrature, starts, ends) ==
    LET sum_int(i) == peak_sum_int(ints, starts[i], ends[i])
        sum_mz_int(i) == peak_sum_mz_int(mz, ints, starts[i], ends[i])
    IN  IF \E i \in 1..Len(starts) : sum_int(i) = 0
        THEN Raise("ZeroDivisionError", EmptySpectrum)
        ELSE Ok(Spectrum(
                 [i \in 1..Len(starts) |->
                     IF IsNaN(sum_mz_int(i)) \/ IsNaN(sum_int(i)) THEN NaN
                     ELSE sum_mz_int(i) \div sum_int(i)],
                 [i \in 1..Len(starts) |->
                     FSub(quadrature[ends[i] + 1], quadrature[starts[i] + 1])]))

\* one iteration of the loop of centroid_data
centroid_one(spectrum) ==
    IF Len(spectrum.int) = 0
    THEN Raise("IndexError", EmptySpectrum)          \* mask[0]
    ELSE centroid_numba(spectrum.mz, spectrum.int,
                        cumulative_trapezoid(spectrum.mz, spectrum.int),
                        start_indices(spectrum.int), end_indices(spectrum.int))

\* the loop of centroid_data from position k on: the list built and the
\* exception that ended it, if any
RECURSIVE centroid_loop(_, _, _)
centroid_loop(old_spectra, k, acc) ==
    IF k > Len(old_spectra) THEN [err |-> "", list |-> acc]
    ELSE LET r == centroid_one(old_spectra[k])
         IN  IF r.err # "" THEN [err |-> r.err, list |-> acc]
             ELSE centroid_loop(old_spectra, k + 1, Append(acc, r.val))

\* the spectra centroid_data reads
centroid_input(self) ==
    IF self.is_norm THEN self.new_spectra ELSE self.spectra

\* Maldi_MS.centroid_data; an exception leaves the object as it then is
centroid_data(self) ==
    LET r == centroid_loop(centroid_input(self), 1, <<>>)
    IN  [self EXCEPT !.new_spectra = r.list,
                     !.is_centroid = IF r.err = "" THEN TRUE ELSE @]

\* the exception centroid_data ends with ("" for none)
centroid_data_err(self) == centroid_loop(centroid_input(self), 1, <<>>).err

\* ---------------------------------------------------------------- filters
\* a sample that keeps the padding zeros
percentile_sample_all(self) ==
    Concat([k \in 1..Len(get_all_spectra(self)) |-> get_all_spectra(self)[k].int])

\* the intensities get_percentile takes the percentile of
percentile_sample(self) ==
    LET all_intensities ==
            Concat([k \in 1..Len(get_all_spectra(self)) |->
                        get_all_spectra(self)[k].int])
    IN  IF self.is_centroid THEN all_intensities ELSE NonZeroOf(all_intensities)

\* Maldi_MS.get_percentile.  np.concatenate raises ValueError for an empty
\* list; np.percentile of an empty array raises IndexError or gives NaN with
\* the numpy release: empty_raises says which.
get_percentile(self, percentage, empty_raises) ==
    IF get_all_spectra(self) = <<>> THEN Raise("ValueError", NaN)
    ELSE IF percentile_sample(self) = <<>>
    THEN (IF empty_raises THEN Raise("IndexError", NaN) ELSE Ok(NaN))
    ELSE Ok(np_percentile(percentile_sample(self), percentage))

\* the list a filter writes to: the one it read the percentile from
WithCurrent(self, list) ==
    IF HasOverlay(self) THEN [self EXCEPT !.new_spectra = list]
    ELSE [self EXCEPT !.spectra = list]

\* one spectrum of noise_reduction: peaks < limit are set to 0
noise_one(spectrum, limit) ==
    Spectrum(spectrum.mz,
             MapSeq(spectrum.int,
                    LAMBDA v : IF NonZero(v) /\ FLess(v, limit) THEN 0 ELSE v))

\* one spectrum of remove_hotspots: peaks > limit are cut to limit
hotspot_one(spectrum, limit) ==
    Spectrum(spectrum.mz,
             MapSeq(spectrum.int,
                    LAMBDA v : IF FGreater(v, limit) THEN limit ELSE v))

\* Maldi_MS.noise_reduction: the object afterwards and the exception raised
noise_reduction(self, percentage, empty_raises) ==
    LET limit == get_percentile(self, percentage, empty_raises)
    IN  IF limit.err # "" THEN [self |-> self, err |-> limit.err]
        ELSE [self |-> WithCurrent(self,
                          MapSeq(get_all_spectra(self),
                                 LAMBDA sp : noise_one(sp, limit.val))),
              err |-> ""]

\* Maldi_MS.remove_hotspots: the object afterwards and the exception raised
remove_hotspots(self, percentage, empty_raises) ==
    LET limit == get_percentile(self, percentage, empty_raises)
    IN  IF limit.err # "" THEN [self |-> self, err |-> limit.err]
        ELSE [self |-> WithCurrent(self,
                          MapSeq(get_all_spectra(self),
                                 LAMBDA sp : hotspot_one(sp, limit.val))),
              err |-> ""]

\* -------------------------------------------------------------- ion image
\* bisect.bisect_left(a, x, lo, hi)
RECURSIVE bisect_left(_, _, _, _)
bisect_left(a, x, lo, hi) ==
    IF lo >= hi THEN lo
    ELSE LET mid == (lo + hi) \div 2
         IN  IF FLess(a[mid + 1], x) THEN bisect_left(a, x, mid + 1, hi)
             ELSE bisect_left(a, x, lo, mid)

\* bisect.bisect_right(a, x, lo, hi)
RECURSIVE bisect_right(_, _, _, _)
bisect_right(a, x, lo, hi) ==
    IF lo >= hi THEN lo
    ELSE LET mid == (lo + hi) \div 2
         IN  IF FLess(x, a[mid + 1]) THEN bisect_right(a, x, lo, mid)
             ELSE bisect_right(a, x, mid + 1, hi)

\* pyimzml's _bisect_spectrum(mzs, mz_value, tol): <<min_i, max_i>>
bisect_spectrum(mzs, mz_value, tol) ==
    LET n == Len(mzs)
        ix_l == bisect_left(mzs, mz_value - tol, 0, n)
        ix_u == bisect_right(mzs, mz_value + tol, 0, n) - 1
    IN  IF ix_l = n THEN <<n, n>>
        ELSE IF ix_u < 1 THEN <<0, 0>>
        ELSE LET u == IF ix_u = n THEN ix_u - 1 ELSE ix_u
                 l2 == IF FLess(mzs[ix_l + 1], mz_value - tol)
                       THEN ix_l + 1 ELSE ix_l
                 u2 == IF FGreater(mzs[u + 1], mz_value + tol) THEN u - 1 ELSE u
             IN  <<l2, u2>>

\* reduce_func(ints[min_i:max_i+1]) with reduce_func = sum
window_sum(spectrum, mz_value, tol) ==
    LET b == bisect_spectrum(spectrum.mz, mz_value, tol)
        n == Len(spectrum.int)
    IN  SumSeq([k \in 1..n |->
                   IF k - 1 >= b[1] /\ k - 1 <= b[2] THEN spectrum.int[k] ELSE 0])

\* np.zeros((max count of pixels y, max count of pixels x))
np_zeros(rows, cols) == [r \in 1..rows |-> [c \in 1..cols |-> 0]]

\* the position a numpy index addresses on an axis of the given size
\* (negative indices count from the end), or -1 for an IndexError
np_axis(index, size) ==
    IF index >= size \/ index < 0 - size THEN -1
    ELSE IF index < 0 THEN index + size ELSE index

\* the loop of getionimage / getionimage_new from spectrum i (0-based) on;
\* read(i) is the spectrum of index i as the function reads it
RECURSIVE image_loop(_, _, _, _, _, _)
image_loop(p, spectra_read, mz_value, tol, i, im) ==
    IF i >= Len(p.coordinates) THEN Ok(im)
    ELSE LET x == p.coordinates[i + 1][1]
             y == p.coordinates[i + 1][2]
             z_ == p.coordinates[i + 1][3]
         IN  IF z_ # 1
             THEN image_loop(p, spectra_read, mz_value, tol, i + 1, im)
             ELSE LET sp == spectra_read[i + 1]
                      r == np_axis(y - 1, p.max_y)
                      c == np_axis(x - 1, p.max_x)
                  IN  IF sp.err # "" \/ r = -1 \/ c = -1
                      THEN Raise("IndexError", <<>>)
                      ELSE image_loop(p, spectra_read, mz_value, tol, i + 1,
                                      [im EXCEPT ![r + 1][c + 1] =
                                          window_sum(sp.val, mz_value, tol)])

\* Maldi_MS.getionimage_new: reads get_spectrum(i)
getionimage_new(self, mz_value, tol) ==
    image_loop(self.p,
               [k \in 1..Len(self.p.coordinates) |-> get_spectrum(self, k - 1)],
               mz_value, tol, 0, np_zeros(self.p.max_y, self.p.max_x))

\* pyimzml's getionimage: reads p.getspectrum(i), the spectra of the file
getionimage(p, mz_value, tol) ==
    image_loop(p, [k \in 1..Len(p.coordinates) |-> Ok(p.spectra[k])],
               mz_value, tol, 0, np_zeros(p.max_y, p.max_x))

\* Maldi_MS.get_ion_image
get_ion_image(self, mz, tol) ==
    LET r == IF HasOverlay(self) THEN getionimage_new(self, mz, tol)
             ELSE getionimage(self.p, mz, tol)
    IN  IF r.err = "IndexError" THEN Raise("RuntimeError", r.val) ELSE r

\* ------------------------------------------------------------ aggregation
\* df.mz.round(4): to the nearest multiple of 0.0001, halves to even
round4(m) ==
    IF IsNaN(m) THEN NaN
    ELSE LET q == m \div MzPerStep
             r == m % MzPerStep
         IN  IF 2 * r < MzPerStep THEN q * MzPerStep
             ELSE IF 2 * r > MzPerStep THEN (q + 1) * MzPerStep
             ELSE IF q % 2 = 0 THEN q * MzPerStep
             ELSE (q + 1) * MzPerStep

\* the set as an ascending sequence
RECURSIVE SetToSortedSeq(_)
SetToSortedSeq(S) ==
    IF S = {} THEN <<>>
    ELSE LET m == CHOOSE a \in S : \A b \in S : a <= b
         IN  <<m>> \o SetToSortedSeq(S \ {m})

\* the points with the m/z as stored, not rounded
points_of_unrounded(spectra) ==
    Concat([i \in 1..Len(spectra) |->
               [k \in 1..Len(spectra[i].mz) |->
                   <<spectra[i].mz[k], spectra[i].int[k]>>]])

\* the points of the spectra as one sequence of <<rounded m/z, intensity>>
points_of(spectra) ==
    Concat([i \in 1..Len(spectra) |->
               [k \in 1..Len(spectra[i].mz) |->
                   <<round4(spectra[i].mz[k]), spectra[i].int[k]>>]])

\* df.groupby(df.mz, agg="sum", sort=True) of the concatenated spectra
groupby_sum(spectra) ==
    LET pts == points_of(spectra)
        keys == SetToSortedSeq({pts[k][1] : k \in 1..Len(pts)})
    IN  Spectrum(keys,
                 [j \in 1..Len(keys) |->
                     SumSeq([k \in 1..Len(pts) |->
                                IF pts[k][1] = keys[j] THEN pts[k][2] ELSE 0])])

\* the body of get_true_mean_spec on the list get_all_spectra() gave it;
\* vaex.concat raises for an empty list of frames
true_mean_of(spectra) ==
    IF spectra = <<>> THEN Raise("ValueError", EmptySpectrum)
    ELSE Ok(groupby_sum(spectra))

\* get_true_mean_spec(maldi_ms), run without interruption
get_true_mean_spec(maldi_ms) == true_mean_of(get_all_spectra(maldi_ms))

\* the indices spectre_du_roi collects for the coordinates [(y, x), ...]
roi_index(maldi_ms, roi) ==
    np_sort(Select([k \in 1..Len(roi) |-> get_index(maldi_ms, roi[k][1], roi[k][2])],
                   [k \in 1..Len(roi) |->
                       get_index(maldi_ms, roi[k][1], roi[k][2]) >= 0]))

\* spectre_du_roi(maldi_ms, roi), run without interruption
spectre_du_roi(maldi_ms, roi) ==
    LET index == roi_index(maldi_ms, roi)
        spectra == get_all_spectra(maldi_ms)
    IN  IF index = <<>> THEN Raise("ValueError", EmptySpectrum)
        ELSE IF \E k \in 1..Len(index) : index[k] >= Len(spectra)
        THEN Raise("IndexError", EmptySpectrum)
        ELSE Ok(groupby_sum([k \in 1..Len(index) |-> spectra[index[k] + 1]]))

\* ------------------------------------------- aggregation, batched (older)
\* df.x.round(3) of napari_placeholder: to the nearest multiple of 0.001,
\* halves to even
round3(m) ==
    IF IsNaN(m) THEN NaN
    ELSE LET step == MzPerStep * Pow10(Decimals - BatchDecimals)
             q == m \div step
             r == m % step
         IN  IF 2 * r < step THEN q * step
             ELSE IF 2 * r > step THEN (q + 1) * step
             ELSE IF q % 2 = 0 THEN q * step
             ELSE (q + 1) * step

\* list[start:end] of a Python list
PySlice(list, start, end) ==
    SubSeq(list, start + 1, IF end > Len(list) THEN Len(list) ELSE end)

\* the lists of BatchSize spectra each, then the list of the remaining ones
batches(spectra0, n) ==
    LET k == n \div BatchSize
        m == n % BatchSize
    IN  [i \in 1..(k + 1) |->
            IF i <= k
            THEN PySlice(spectra0, (i - 1) * BatchSize, i * BatchSize)
            ELSE PySlice(spectra0, k * BatchSize, k * BatchSize + m)]

\* mean_spec1(spectra), run by a pool worker: the frame of all points;
\* spectra[0] of an empty list raises IndexError
mean_spec1(spectra) ==
    IF spectra = <<>> THEN Raise("IndexError", <<>>)
    ELSE Ok(Concat([i \in 1..Len(spectra) |->
                       [k \in 1..Len(spectra[i].mz) |->
                           <<spectra[i].mz[k], spectra[i].int[k]>>]]))

\* mean_spec2(list1): the frames concatenated, rounded and grouped
mean_spec2(list1) ==
    LET df == Concat(list1)
        x == [k \in 1..Len(df) |-> round3(df[k][1])]
        keys == SetToSortedSeq({x[k] : k \in 1..Len(df)})
    IN  Spectrum(keys,
                 [j \in 1..Len(keys) |->
                     SumSeq([k \in 1..Len(df) |->
                                IF x[k] = keys[j] THEN df[k][2] ELSE 0])])

\* get_true_mean_spec(maldi_ms) of napari_placeholder; p.map gives the
\* frames in the order of the batches and raises what a worker raised
get_true_mean_spec_batched(maldi_ms) ==
    LET spectra2 == batches(get_all_spectra(maldi_ms), maldi_ms.num_spectra)
        list1 == [i \in 1..Len(spectra2) |-> mean_spec1(spectra2[i])]
    IN  IF \E i \in 1..Len(list1) : list1[i].err # ""
        THEN Raise("IndexError", EmptySpectrum)
        ELSE Ok(mean_spec2([i \in 1..Len(list1) |-> list1[i].val]))

\* ================================================================== state
VARIABLES
    objects,        \* the Maldi_MS objects constructed so far, oldest first
    ms_object,      \* MSI_Explorer.ms_object: a position of objects, 0 = None
    last,           \* the last call made: its name, arguments and exception
    nfilters,       \* the filter calls made so far (bounded by MaxFilters)
    pre_norm,       \* [set, spectra]: set when the last call was a scaling
                    \* normalize made on a dataset that was not normalized;
                    \* spectra is what get_all_spectra() returned before it
    sel_ms_object,  \* SelectionWindow.ms_object: a position of objects, 0 = None
    mean_spectra,   \* SelectionWindow.mean_spectra: label -> spectrum
    mean_origin,    \* history of mean_spectra: label -> the object the entry
                    \* was computed from and its label at the dispatch
    workers,        \* the workers started and not yet handled, oldest first
    ui,             \* the GUI thread: idle, or where preprocess stands
    enabled,        \* the buttons are enabled
    current_spectrum, \* SelectionWindow.current_spectrum: not assigned yet,
                    \* None, or the array on display
    manual_rows,    \* MetadataWindow: the key and value texts of the manual rows
    cursor          \* the depth of QApplication's stack of override cursors

core_vars == <<objects, ms_object, last, nfilters, pre_norm>>

ui_vars ==
    <<sel_ms_object, mean_spectra, mean_origin, workers, ui, enabled,
      current_spectrum, manual_rows, cursor>>

vars == <<core_vars, ui_vars>>

\* the object the calls are made on
Cur == objects[ms_object]

\* ------------------------------------------------------------- the inputs
\* intensity profiles of a loaded spectrum: all zero, a peak on the first
\* sample only, a peak up to the last sample, a peak from the first sample,
\* no zero at all
BasePatterns ==
    << <<0, 0, 0>>,
       <<IntScale, 0, 0>>,
       <<0, IntScale, 2 * IntScale>>,
       <<IntScale, 2 * IntScale, 0>>,
       <<2 * IntScale, IntScale, 2 * IntScale>> >>

Pattern(j) ==
    [k \in 1..MaxLen |-> BasePatterns[((j - 1) % Len(BasePatterns)) + 1][((k - 1) % 3) + 1]]

\* the m/z axis of spectrum i (1-based): from 1 Da on, 0.1 Da apart, shifted
\* by MzOffset from one spectrum to the next
MzAxis(i) ==
    [k \in 1..MaxLen |-> Da + (k - 1) * (Da \div 10) + (i - 1) * MzOffset]

\* the spectra of file j: consecutive profiles, starting with profile j
FileSpectra(j) ==
    [i \in 1..NumSpectra |-> Spectrum(MzAxis(i), Pattern(j + i - 1))]

\* coordinates: a row of N pixels, shifted by dx (0-based files have
\* dx = -1), the last spectrum on plane z_last
Layout(dx, z_last) ==
    [i \in 1..NumSpectra |->
        <<i + dx, 1, IF i = NumSpectra THEN z_last ELSE 1>>]

\* the spectra of a baseline-corrected file: a sample below zero, a peak on
\* the last sample
BelowZero ==
    [i \in 1..NumSpectra |->
        Spectrum(MzAxis(i),
                 [k \in 1..MaxLen |->
                     IF k = 1 THEN 0 - 2 * IntScale
                     ELSE IF k = MaxLen THEN IntScale ELSE 0])]

\* coordinates of a file that stores every spectrum on pixel (1, 1, 1)
OnePixel == [i \in 1..NumSpectra |-> <<1, 1, 1>>]

\* the files to load: every profile sequence on the regular layout, one
\* profile sequence on every layout and on one pixel, and a file with
\* intensities below zero
Files ==
    { Parser(FileSpectra(j), Layout(0, 1), NumSpectra, 1) :
        j \in 1..Len(BasePatterns) }
    \cup
    { Parser(FileSpectra(3), Layout(dx, z_last), NumSpectra, 1) :
        dx \in {-1, 0, 1}, z_last \in {0, 1} }
    \cup
    { Parser(FileSpectra(3), OnePixel, NumSpectra, 1),
      Parser(BelowZero, Layout(0, 1), NumSpectra, 1) }

Methods == {"original", "tic", "rms", "median", "peak", "other"}

RefMzs == {DefaultMz0, Da + Da \div 10}

Percentages == {0, 50, 100}

Call(op, arg, err) == [op |-> op, arg |-> arg, err |-> err]

NoArg == <<>>

NoPreNorm == [set |-> FALSE, spectra |-> <<>>]

\* the values of SelectionWindow.current_spectrum
NotAssigned == [kind |-> "unset", val |-> EmptySpectrum]

NoneSpectrum == [kind |-> "None", val |-> EmptySpectrum]

Shown(spectrum) == [kind |-> "array", val |-> spectrum]

\* np.percentile is reached with an empty sample: the numpy release decides
EmptyOutcomes(self) ==
    IF get_all_spectra(self) # <<>> /\ percentile_sample(self) = <<>>
    THEN BOOLEAN ELSE {FALSE}

\* ====================================================== the calls (Spec)
Init ==
    /\ \E f \in Files : objects = <<Maldi_MS(f)>>
    /\ ms_object = 1
    /\ last = Call("init", NoArg, "")
    /\ nfilters = 0
    /\ pre_norm = NoPreNorm
    /\ sel_ms_object = 1
    /\ mean_spectra = <<>>
    /\ mean_origin = <<>>
    /\ workers = <<>>
    /\ ui = "idle"
    /\ enabled = TRUE
    /\ current_spectrum = NotAssigned
    /\ manual_rows = <<>>
    /\ cursor = 0

SetCur(o) == objects' = [objects EXCEPT ![ms_object] = o]

NormalizeWith(norm, mz0) ==
    /\ SetCur(normalize(Cur, norm, mz0, DefaultTol))
    /\ last' = Call("normalize", <<norm, mz0>>, "")
    /\ pre_norm' = IF norm \in Scaling /\ ~Cur.is_norm
                   THEN [set |-> TRUE, spectra |-> get_all_spectra(Cur)]
                   ELSE NoPreNorm
    /\ UNCHANGED <<ms_object, nfilters, ui_vars>>

Normalize ==
    \E norm \in Methods, mz0 \in RefMzs :
        /\ (norm # "peak" => mz0 = DefaultMz0)
        /\ NormalizeWith(norm, mz0)

CentroidData ==
    /\ SetCur(centroid_data(Cur))
    /\ last' = Call("centroid_data", NoArg, centroid_data_err(Cur))
    /\ pre_norm' = NoPreNorm
    /\ UNCHANGED <<ms_object, nfilters, ui_vars>>

NoiseReduction ==
    \E q \in Percentages, empty_raises \in EmptyOutcomes(Cur) :
        LET r == noise_reduction(Cur, q, empty_raises)
        IN  /\ nfilters < MaxFilters
            /\ nfilters' = nfilters + 1
            /\ SetCur(r.self)
            /\ last' = Call("noise_reduction", <<q>>, r.err)
            /\ pre_norm' = NoPreNorm
            /\ UNCHANGED <<ms_object, ui_vars>>

RemoveHotspots ==
    \E q \in Percentages, empty_raises \in EmptyOutcomes(Cur) :
        LET r == remove_hotspots(Cur, q, empty_raises)
        IN  /\ nfilters < MaxFilters
            /\ nfilters' = nfilters + 1
            /\ SetCur(r.self)
            /\ last' = Call("remove_hotspots", <<q>>, r.err)
            /\ pre_norm' = NoPreNorm
            /\ UNCHANGED <<ms_object, ui_vars>>

Next == Normalize \/ CentroidData \/ NoiseReduction \/ RemoveHotspots

Spec == Init /\ [][Next]_vars

\* ============================================ the plugin's windows (SpecUI)
\* Maldi_MS.check_centroid: "True", "False" or "None" (no return is reached)
RECURSIVE np_min(_)
np_min(s) ==
    IF Len(s) = 1 THEN Head(s)
    ELSE LET m == np_min(Tail(s))
         IN  IF IsNaN(Head(s)) \/ IsNaN(m) THEN NaN
             ELSE IF Head(s) <= m THEN Head(s) ELSE m

check_centroid(self) ==
    IF self.is_centroid THEN "True"
    ELSE LET intensities == self.spectra[(self.num_spectra \div 2) + 1].int
             min1 == np_min(intensities)
             median1 == np_median(intensities)
         IN  IF IsNaN(min1) \/ IsNaN(median1) THEN "None"
             ELSE IF min1 > 0 \/ (min1 = 0 /\ median1 = 0) THEN "True"
             ELSE IF median1 > 0 THEN "False"
             ELSE "None"

\* the files the user opens: profile data, data stored as centroids, and a
\* file whose coordinates exceed the declared extents
UiFiles ==
    { Parser(FileSpectra(3), Layout(0, 1), NumSpectra, 1),
      Parser(FileSpectra(4), Layout(0, 1), NumSpectra, 1),
      Parser(FileSpectra(3), Layout(1, 1), NumSpectra, 1) }

\* a check box with its line edit
Param(checked, text) == [checked |-> checked, text |-> text]

ParamOptions ==
    {Param(FALSE, "50")} \cup {Param(TRUE, t) : t \in {"50", "150", "abc"}}

\* float(text) of a percentage
FloatOf(text) ==
    IF text = "50" THEN Ok(50)
    ELSE IF text = "150" THEN Ok(150)
    ELSE Raise("ValueError", 0)

\* the reference line edit: empty, 1.1 Da, not a number
RefTexts == {"", "1.1", "abc"}

\* float(text) of a reference m/z
MzOf(text) ==
    IF text = "1.1" THEN Ok(Da + Da \div 10) ELSE Raise("ValueError", 0)

\* the items of combobox_scale
ComboMethods == {"original", "tic", "rms", "median", "peak"}

\* the pixels painted on the ROI layer, as [(y, x), ...]: none, one with a
\* spectrum, one without
UiRois == { <<>>, << <<1, 1>> >>, << <<1, NumSpectra + 1>> >> }

NoObject == Maldi_MS(Parser(<<>>, <<>>, 0, 0))

Idle(runs) ==
    [pc |-> "idle", norm |-> "", mz0 |-> 0, hot |-> Param(FALSE, ""),
     pre |-> NoObject, runs |-> runs]

EmptyCache == [l \in {} |-> EmptySpectrum]

Put(cache, key, value) ==
    [l \in DOMAIN cache \cup {key} |-> IF l = key THEN value ELSE cache[l]]

RemoveAt(ws, i) == SubSeq(ws, 1, i - 1) \o SubSeq(ws, i + 1, Len(ws))

\* the objects nothing refers to any more are freed
Collect(objs, ms, sel, ws) ==
    [o \in DOMAIN objs |->
        IF o = ms \/ o = sel \/ \E i \in DOMAIN ws : ws[i].obj = o
        THEN objs[o] ELSE NoObject]

\* a worker made by get_true_mean_spec(maldi_ms) or spectre_du_roi(maldi_ms,
\* roi): the object it was given, where its thread stands, the list its
\* variable "spectra" refers to (ref; snap holds a list the object has
\* dropped), the spectra it has read, its result.  History: the label and
\* the complete spectrum sets of the object since the dispatch, and whether a
\* filter ran meanwhile.
Worker(kind, obj, roi) ==
    [kind |-> kind, obj |-> obj, roi |-> roi, pc |-> "start",
     ref |-> "", snap |-> <<>>, acc |-> <<>>, result |-> EmptySpectrum,
     label |-> objects[obj].norm_type,
     seen |-> {get_all_spectra(objects[obj])},
     filtered |-> FALSE]

\* the list the worker's variable "spectra" refers to
WorkerList(w) ==
    IF w.ref = "detached" THEN w.snap
    ELSE IF w.ref = "new_spectra" THEN objects[w.obj].new_spectra
    ELSE objects[w.obj].spectra

\* self.new_spectra = [] on object o: the workers that hold the old list
\* keep it
Detach(ws, o, old) ==
    [i \in DOMAIN ws |->
        IF ws[i].obj = o /\ ws[i].ref = "new_spectra"
        THEN [ws[i] EXCEPT !.ref = "detached", !.snap = old]
        ELSE ws[i]]

\* history: object o has reached a complete spectrum set
Observe(ws, o, after, filtered) ==
    [i \in DOMAIN ws |->
        IF ws[i].obj = o /\ ws[i].pc # "returned"
        THEN [ws[i] EXCEPT !.seen = @ \cup {get_all_spectra(after)},
                           !.filtered = @ \/ filtered]
        ELSE ws[i]]

\* ------------------------------------------------- MSI_Explorer._open_file
\* the exception the calls after the construction end with ("" for none)
open_file_err(o) ==
    LET x == o.p.max_x \div 2
        y == o.p.max_y \div 2
        sp == get_spectrum(o, get_index(o, y, x))
    IN  IF sp.err # "" THEN sp.err
        ELSE get_ion_image(o, DefaultMz0, DefaultTol).err

\* what set_data leaves as the current spectrum: the spectrum from the
\* centre, unless get_spectrum raised before
default_spectrum(o, current) ==
    LET sp == get_spectrum(o, get_index(o, o.p.max_y \div 2, o.p.max_x \div 2))
    IN  IF sp.err # "" THEN current ELSE Shown(sp.val)

OpenFileWith(f, yes) ==
        LET new == Maldi_MS(f)
            asked == check_centroid(new) # "True"
            cerr == IF asked /\ yes THEN centroid_data_err(new) ELSE ""
            o == IF asked /\ yes THEN centroid_data(new) ELSE new
            id == Len(objects) + 1
        IN  /\ ui.pc = "idle"
            /\ Len(objects) < MaxObjects
            /\ (~asked => ~yes)
            /\ IF cerr # ""
               THEN /\ ms_object' = id
                    /\ UNCHANGED last
                    /\ UNCHANGED <<sel_ms_object, mean_spectra, mean_origin,
                                   enabled, current_spectrum>>
               ELSE IF open_file_err(o) = "RuntimeError"
               THEN /\ ms_object' = 0
                    /\ sel_ms_object' = 0
                    /\ current_spectrum' = NoneSpectrum
                    /\ UNCHANGED last
                    /\ UNCHANGED <<mean_spectra, mean_origin, enabled>>
               ELSE IF open_file_err(o) # ""
               THEN /\ ms_object' = id
                    /\ sel_ms_object' = id
                    /\ current_spectrum' = default_spectrum(o, current_spectrum)
                    /\ UNCHANGED last
                    /\ UNCHANGED <<mean_spectra, mean_origin, enabled>>
               ELSE /\ ms_object' = id
                    /\ sel_ms_object' = id
                    /\ current_spectrum' = default_spectrum(o, current_spectrum)
                    /\ mean_spectra' = EmptyCache
                    /\ mean_origin' = EmptyCache
                    /\ enabled' = TRUE
                    /\ UNCHANGED last
            /\ objects' = Collect(Append(objects, o), ms_object',
                                  sel_ms_object', workers)
            /\ UNCHANGED <<manual_rows, workers, ui, nfilters, pre_norm>>

OpenFile == \E f \in UiFiles, yes \in BOOLEAN : OpenFileWith(f, yes)

\* the dialog is cancelled (TypeError) or the .ibd file is missing
\* (UnboundLocalError): self.ms_object is not assigned
OpenFileFails ==
    \E e \in {"TypeError", "UnboundLocalError"} :
        /\ ui.pc = "idle"
        /\ e # ""
        /\ UNCHANGED vars

\* ------------------------------------------------- MSI_Explorer.preprocess
NotANumber(what) == what \o " value is not a number"

OutOfRange(what) == what \o " value must be between 0 and 100"

InvalidParameter ==
    { NotANumber(w) : w \in {"Noise reduction", "Hotspot removal"} } \cup
    { OutOfRange(w) : w \in {"Noise reduction", "Hotspot removal"} }

\* one filter of the run on object o (None = FALSE: o is an object): what
\* the object is afterwards, the message or exception that ends the run, and
\* whether the filter ran
FilterPart(what, none, o, param, empty_raises) ==
    LET f == FloatOf(param.text)
        r == IF what = "Noise reduction"
             THEN noise_reduction(o, f.val, empty_raises)
             ELSE remove_hotspots(o, f.val, empty_raises)
    IN  IF ~param.checked THEN [self |-> o, err |-> "", ran |-> FALSE]
        ELSE IF f.err # ""
        THEN [self |-> o, err |-> NotANumber(what), ran |-> FALSE]
        ELSE IF f.val < 0 \/ f.val > 100
        THEN [self |-> o, err |-> OutOfRange(what), ran |-> FALSE]
        ELSE IF none
        THEN [self |-> o, err |-> "AttributeError", ran |-> FALSE]
        ELSE [self |-> r.self, err |-> r.err, ran |-> r.err = ""]

\* the percentile outcomes to consider for object o
Outcomes(none, o) == IF none THEN {FALSE} ELSE EmptyOutcomes(o)

\* the run ends: with object "after" in place of the current one, and the
\* workers ws
Finish(ws, after, err, filtered) ==
    /\ objects' = IF ms_object = 0 THEN objects
                  ELSE [objects EXCEPT ![ms_object] = after]
    /\ workers' = Observe(ws, ms_object, after, filtered)
    /\ ui' = Idle(ui.runs + 1)
    /\ last' = Call("preprocess", NoArg, err)

\* the run from the end of normalize on
AfterNormalize(ws, o, hot, filtered) ==
    \E empty_raises \in EmptyOutcomes(o) :
        LET h == FilterPart("Hotspot removal", FALSE, o, hot, empty_raises)
        IN  Finish(ws, h.self, h.err, filtered \/ h.ran)

\* the button is pressed: the run up to the first spectrum of normalize
PreprocessBegin ==
    \E noise \in ParamOptions, norm \in ComboMethods, ref \in RefTexts,
       hot \in ParamOptions :
        LET none == ms_object = 0
            self == IF none THEN NoObject ELSE Cur
        IN  \E empty_raises \in Outcomes(none, self) :
            LET n == FilterPart("Noise reduction", none, self, noise,
                                empty_raises)
                mz0 == IF ref = "" THEN DefaultMz0 ELSE MzOf(ref).val
                begun == [n.self EXCEPT !.new_spectra = <<>>,
                                        !.norm_type = Label(norm, NoRef)]
                detached == Detach(workers, ms_object, n.self.new_spectra)
            IN  /\ ui.pc = "idle"
                /\ enabled
                /\ ui.runs < MaxRuns
                /\ (norm # "peak" => ref = "")
                /\ IF n.err # ""
                   THEN Finish(workers, n.self, n.err, n.ran)
                   ELSE IF ref # "" /\ MzOf(ref).err # ""
                   THEN Finish(workers, n.self, "ValueError", n.ran)
                   ELSE IF none
                   THEN Finish(workers, n.self, "AttributeError", n.ran)
                   ELSE IF norm = "original"
                   THEN AfterNormalize(detached,
                                       [begun EXCEPT !.is_norm = FALSE],
                                       hot, n.ran)
                   ELSE IF normalize_input(begun) = <<>>
                   THEN AfterNormalize(
                            detached,
                            [begun EXCEPT !.is_norm = TRUE,
                                          !.norm_type = norm_label(norm, mz0)],
                            hot, n.ran)
                   ELSE /\ objects' = [objects EXCEPT ![ms_object] = begun]
                        /\ workers' =
                              [i \in DOMAIN workers |->
                                  IF workers[i].obj = ms_object
                                  THEN [detached[i]
                                           EXCEPT !.filtered = @ \/ n.ran]
                                  ELSE workers[i]]
                        /\ ui' = [pc |-> "normalize", norm |-> norm,
                                  mz0 |-> mz0, hot |-> hot, pre |-> Cur,
                                  runs |-> ui.runs]
                        /\ UNCHANGED last
                /\ UNCHANGED <<manual_rows,
                               current_spectrum, ms_object, sel_ms_object, mean_spectra,
                               mean_origin, enabled, nfilters, pre_norm>>

\* normalize appends the next spectrum; after the last one the run goes on
\* to its end
PreprocessNormalize ==
    LET k == Len(Cur.new_spectra)
        sp == normalize_one(normalize_input(Cur)[k + 1], ui.norm, ui.mz0,
                            DefaultTol)
        o1 == [Cur EXCEPT !.new_spectra = Append(@, sp)]
        o2 == [o1 EXCEPT !.is_norm = TRUE,
                         !.norm_type = norm_label(ui.norm, ui.mz0)]
    IN  /\ ui.pc = "normalize"
        /\ IF k + 1 < Len(normalize_input(Cur))
           THEN /\ objects' = [objects EXCEPT ![ms_object] = o1]
                /\ UNCHANGED <<workers, ui, last>>
           ELSE AfterNormalize(workers, o2, ui.hot, FALSE)
        /\ UNCHANGED <<manual_rows,
                       current_spectrum, ms_object, sel_ms_object, mean_spectra, mean_origin,
                       enabled, nfilters, pre_norm>>

\* ---------------------------------------------------- SelectionWindow
\* calculate_true_mean_spectrum
CalculateTrueMean ==
    /\ ui.pc = "idle"
    /\ enabled
    /\ IF sel_ms_object = 0
       THEN UNCHANGED <<workers, current_spectrum>>    \* AttributeError
       ELSE IF objects[sel_ms_object].norm_type \in DOMAIN mean_spectra
       THEN /\ UNCHANGED workers      \* the cached spectrum is plotted
            /\ current_spectrum' =
                   Shown(mean_spectra[objects[sel_ms_object].norm_type])
       ELSE /\ Len(workers) < MaxWorkers
            /\ workers' = Append(workers, Worker("mean", sel_ms_object, <<>>))
            /\ UNCHANGED current_spectrum
    /\ UNCHANGED <<manual_rows, cursor,
                   last, objects, ms_object, sel_ms_object, mean_spectra,
                   mean_origin, ui, enabled, nfilters, pre_norm>>

\* calculate_roi_mean_spectrum
CalculateRoiMean ==
    \E roi \in UiRois :
        /\ ui.pc = "idle"
        /\ enabled
        /\ IF sel_ms_object = 0
           THEN UNCHANGED workers      \* AttributeError in the thread
           ELSE /\ Len(workers) < MaxWorkers
                /\ workers' = Append(workers, Worker("roi", sel_ms_object, roi))
        /\ UNCHANGED <<manual_rows, cursor,
                       current_spectrum, last, objects, ms_object, sel_ms_object, mean_spectra,
                       mean_origin, ui, enabled, nfilters, pre_norm>>

\* the thread of get_true_mean_spec: spectra = maldi_ms.get_all_spectra()
WorkerStart ==
    \E i \in DOMAIN workers :
        /\ workers[i].kind = "mean"
        /\ workers[i].pc = "start"
        /\ workers' = [workers EXCEPT
                          ![i].pc = "read",
                          ![i].ref = IF HasOverlay(objects[workers[i].obj])
                                     THEN "new_spectra" ELSE "spectra"]
        /\ UNCHANGED <<manual_rows,
                       current_spectrum, objects, ms_object, sel_ms_object, mean_spectra,
                       mean_origin, ui, enabled, last, nfilters, pre_norm>>

\* the thread of get_true_mean_spec: the comprehension takes the next
\* spectrum of the list, or the list is exhausted and the result is made
WorkerRead ==
    \E i \in DOMAIN workers :
        LET w == workers[i]
            k == Len(w.acc)
            r == true_mean_of(w.acc)
        IN  /\ w.kind = "mean"
            /\ w.pc = "read"
            /\ IF k < Len(WorkerList(w))
               THEN /\ workers' = [workers EXCEPT
                                      ![i].acc = Append(@, WorkerList(w)[k + 1])]
                    /\ UNCHANGED objects
               ELSE IF r.err # ""      \* the worker ends with the exception
               THEN /\ workers' = RemoveAt(workers, i)
                    /\ objects' = Collect(objects, ms_object, sel_ms_object,
                                          workers')
               ELSE /\ workers' = [workers EXCEPT ![i].pc = "returned",
                                                  ![i].result = r.val]
                    /\ UNCHANGED objects
            /\ UNCHANGED <<manual_rows,
                           current_spectrum, last, ms_object, sel_ms_object, mean_spectra,
                           mean_origin, ui, enabled, nfilters, pre_norm>>

\* a thread of spectre_du_roi that returns the empty spectrum where
\* spectre_du_roi raises
WorkerRoiSilent ==
    \E i \in DOMAIN workers :
        LET w == workers[i]
            r == spectre_du_roi(objects[w.obj], w.roi)
        IN  /\ w.kind = "roi"
            /\ w.pc = "start"
            /\ workers' = [workers EXCEPT ![i].pc = "returned",
                                          ![i].result = r.val]
            /\ UNCHANGED objects
            /\ UNCHANGED <<manual_rows,
                           current_spectrum, last, ms_object, sel_ms_object, mean_spectra,
                           mean_origin, ui, enabled, nfilters, pre_norm>>

\* the thread of spectre_du_roi
WorkerRoi ==
    \E i \in DOMAIN workers :
        LET w == workers[i]
            r == spectre_du_roi(objects[w.obj], w.roi)
        IN  /\ w.kind = "roi"
            /\ w.pc = "start"
            /\ IF r.err # ""          \* the worker ends with the exception
               THEN /\ workers' = RemoveAt(workers, i)
                    /\ objects' = Collect(objects, ms_object, sel_ms_object,
                                          workers')
               ELSE /\ workers' = [workers EXCEPT ![i].pc = "returned",
                                                  ![i].result = r.val]
                    /\ UNCHANGED objects
            /\ UNCHANGED <<manual_rows,
                           current_spectrum, last, ms_object, sel_ms_object, mean_spectra,
                           mean_origin, ui, enabled, nfilters, pre_norm>>

\* display_true_mean_spectrum, called with the value a worker returned
DisplayTrueMean ==
    \E i \in DOMAIN workers :
        LET w == workers[i]
        IN  /\ ui.pc = "idle"
            /\ w.kind = "mean"
            /\ w.pc = "returned"
            /\ workers' = RemoveAt(workers, i)
            /\ IF sel_ms_object = 0
               THEN UNCHANGED <<mean_spectra, mean_origin,   \* AttributeError
                                current_spectrum>>
               ELSE /\ mean_spectra' =
                          Put(mean_spectra, objects[sel_ms_object].norm_type,
                              w.result)
                    /\ current_spectrum' = Shown(w.result)
                    /\ mean_origin' =
                          Put(mean_origin, objects[sel_ms_object].norm_type,
                              [obj |-> w.obj, label |-> w.label])
            /\ objects' = Collect(objects, ms_object, sel_ms_object, workers')
            /\ UNCHANGED <<manual_rows, cursor,
                           last, ms_object, sel_ms_object, ui, enabled,
                           nfilters, pre_norm>>

\* display_roi_mean_spectrum, called with the value a worker returned
DisplayRoiMean ==
    \E i \in DOMAIN workers :
        LET w == workers[i]
        IN  /\ ui.pc = "idle"
            /\ w.kind = "roi"
            /\ w.pc = "returned"
            /\ workers' = RemoveAt(workers, i)
            /\ current_spectrum' = Shown(w.result)
            /\ objects' = Collect(objects, ms_object, sel_ms_object, workers')
            /\ UNCHANGED <<manual_rows, cursor,
                           last, ms_object, sel_ms_object, mean_spectra,
                           mean_origin, ui, enabled, nfilters, pre_norm>>

InitUI ==
    /\ objects = <<>>
    /\ ms_object = 0
    /\ sel_ms_object = 0
    /\ mean_spectra = EmptyCache
    /\ mean_origin = EmptyCache
    /\ workers = <<>>
    /\ ui = Idle(0)
    /\ enabled = FALSE
    /\ last = Call("init", NoArg, "")
    /\ nfilters = 0
    /\ pre_norm = NoPreNorm
    /\ current_spectrum = NotAssigned
    /\ manual_rows = <<>>
    /\ cursor = 0

\* SpecUI does not follow the override cursor: the handlers that set or
\* restore it are taken without these calls (SpecCursor has them)
NextUI ==
    \/ OpenFile /\ UNCHANGED cursor
    \/ OpenFileFails
    \/ PreprocessBegin /\ UNCHANGED cursor
    \/ PreprocessNormalize /\ UNCHANGED cursor
    \/ CalculateTrueMean
    \/ CalculateRoiMean
    \/ WorkerStart /\ UNCHANGED cursor
    \/ WorkerRead /\ UNCHANGED cursor
    \/ WorkerRoi /\ UNCHANGED cursor
    \/ DisplayTrueMean
    \/ DisplayRoiMean

SpecUI == InitUI /\ [][NextUI]_vars

\* ===================================== the metadata window (SpecMeta)
\* a manual row: the texts of its two QLineEdit cells
Row(key, value) == [key |-> key, value |-> value]

EmptyRow == Row("", "")

\* the texts typed into a cell
Texts == {"", "a", "b"}

\* MetadataWindow._add_line
add_line(rows) == Append(rows, EmptyRow)

\* a check that takes a row with one empty cell for an empty line
check_for_partly_empty_line(rows) ==
    IF \E row \in 1..Len(rows) : rows[row].key = "" \/ rows[row].value = ""
    THEN rows
    ELSE add_line(rows)

\* MetadataWindow._check_for_empty_line
check_for_empty_line(rows) ==
    IF \E row \in 1..Len(rows) : rows[row].key = "" /\ rows[row].value = ""
    THEN rows
    ELSE add_line(rows)

\* the user changes the text of one cell of a manual row; textChanged calls
\* _check_for_empty_line
EditText ==
    \E row \in 1..Len(manual_rows), column \in {"key", "value"}, text \in Texts :
        LET edited == [manual_rows EXCEPT ![row][column] = text]
        IN  /\ manual_rows[row][column] # text
            /\ Len(check_for_empty_line(edited)) <= MaxRows
            /\ manual_rows' = check_for_empty_line(edited)
            /\ UNCHANGED <<core_vars, sel_ms_object, mean_spectra, mean_origin,
                           workers, ui, enabled, current_spectrum, cursor>>

\* the window of a loaded dataset, as MetadataWindow.__init__ leaves it
InitMeta ==
    /\ objects = <<Maldi_MS(Parser(FileSpectra(3), Layout(0, 1), NumSpectra, 1))>>
    /\ ms_object = 1
    /\ last = Call("init", NoArg, "")
    /\ nfilters = 0
    /\ pre_norm = NoPreNorm
    /\ sel_ms_object = 1
    /\ mean_spectra = EmptyCache
    /\ mean_origin = EmptyCache
    /\ workers = <<>>
    /\ ui = Idle(0)
    /\ enabled = TRUE
    /\ current_spectrum = NotAssigned
    /\ manual_rows = add_line(<<>>)
    /\ cursor = 0

NextMeta == EditText

SpecMeta == InitMeta /\ [][NextMeta]_vars

\* ============================================ the override cursor (SpecCursor)
\* QApplication.setOverrideCursor pushes a cursor on the stack
set_cursor(depth) == depth + 1

\* QApplication.restoreOverrideCursor pops one, if there is one
restore_cursor(depth) == IF depth > 0 THEN depth - 1 ELSE 0

\* the depth _open_file leaves: the wait cursor is set before the file is
\* read; the question for profile data restores it; so does the end of the
\* method, which the exceptions and the metadata error do not reach
open_file_cursor(f, yes, depth) ==
    LET new == Maldi_MS(f)
        asked == check_centroid(new) # "True"
        cerr == IF asked /\ yes THEN centroid_data_err(new) ELSE ""
        o == IF asked /\ yes THEN centroid_data(new) ELSE new
        shown == IF asked THEN restore_cursor(set_cursor(depth))
                 ELSE set_cursor(depth)
    IN  IF cerr # "" \/ open_file_err(o) # "" THEN shown
        ELSE restore_cursor(shown)

\* _open_file with its cursor calls
CursorOpenFile ==
    \E f \in UiFiles, yes \in BOOLEAN :
        /\ cursor < MaxCursor
        /\ OpenFileWith(f, yes)
        /\ cursor' = open_file_cursor(f, yes, cursor)

\* _open_file when the dialog is cancelled or the .ibd file is missing: the
\* handler restores the cursor before it returns
CursorOpenFileFails ==
    /\ cursor < MaxCursor
    /\ OpenFileFails
    /\ cursor = restore_cursor(set_cursor(cursor))

\* preprocess sets the wait cursor first and restores it in its last
\* statement, which a run that returns after a message or ends with an
\* exception does not reach
CursorPreprocessBegin ==
    /\ cursor < MaxCursor
    /\ PreprocessBegin
    /\ cursor' = IF ui'.pc = "idle" /\ last'.err = ""
                 THEN restore_cursor(set_cursor(cursor))
                 ELSE set_cursor(cursor)

CursorPreprocessNormalize ==
    /\ PreprocessNormalize
    /\ cursor' = IF ui'.pc = "idle" /\ last'.err = ""
                 THEN restore_cursor(cursor)
                 ELSE cursor

\* the thread of get_true_mean_spec sets the wait cursor first
CursorWorkerStart ==
    /\ cursor < MaxCursor
    /\ WorkerStart
    /\ cursor' = set_cursor(cursor)

\* and restores it before it returns its result, not when it ends with an
\* exception
CursorWorkerRead ==
    /\ WorkerRead
    /\ cursor' = IF /\ Len(workers') = Len(workers)
                    /\ \E i \in DOMAIN workers :
                          workers[i].pc = "read" /\ workers'[i].pc = "returned"
                 THEN restore_cursor(cursor)
                 ELSE cursor

\* the thread of spectre_du_roi does the same
CursorWorkerRoi ==
    /\ cursor < MaxCursor
    /\ WorkerRoi
    /\ cursor' = IF Len(workers') = Len(workers)
                 THEN restore_cursor(set_cursor(cursor))
                 ELSE set_cursor(cursor)

NextCursor ==
    \/ CursorOpenFile
    \/ CursorOpenFileFails
    \/ CursorPreprocessBegin
    \/ CursorPreprocessNormalize
    \/ CalculateTrueMean
    \/ CalculateRoiMean
    \/ CursorWorkerStart
    \/ CursorWorkerRead
    \/ CursorWorkerRoi
    \/ DisplayTrueMean
    \/ DisplayRoiMean

SpecCursor == InitUI /\ [][NextCursor]_vars

\* ================================================================= claims
\* the indices and m/z values the read operations are probed with
IndexProbe == (0 - 2)..(NumSpectra + 1)

ProbeMzs == {Da + (k - 1) * (Da \div 10) : k \in 1..MaxLen}

\* the last call was normalize with a scaling method
LastScaling == last.op = "normalize" /\ last.arg[1] \in Scaling

\* C1: in every state reached by normalize (any method string),
\* centroid_data, noise_reduction and remove_hotspots calls on a dataset
\* with N >= 1 spectra, get_spectrum(i) raises nothing for any integer i and
\* returns entry min(max(i, 0), N - 1) of the authoritative spectrum list.
C1_GetSpectrumClamps ==
    \A i \in IndexProbe :
        LET clamped == IF i < 0 THEN 0
                       ELSE IF i > NumSpectra - 1 THEN NumSpectra - 1 ELSE i
        IN  /\ get_spectrum(Cur, i).err = ""
            /\ clamped + 1 <= Len(get_all_spectra(Cur))
            /\ get_spectrum(Cur, i).val = get_all_spectra(Cur)[clamped + 1]

\* C2: normalize('original') made right after another normalization gives
\* back, as get_all_spectra(), exactly the list get_all_spectra() returned
\* before that normalization, whether the dataset was then raw, filtered or
\* centroided.
C2_OriginalRestores ==
    [][(/\ pre_norm.set
        /\ last'.op = "normalize"
        /\ last'.arg[1] = "original")
       => get_all_spectra(Cur') = pre_norm.spectra]_vars

\* C3: after normalize(m) with m in {tic, rms, median, peak}, from any prior
\* state, is_norm is true, is_centroid is false and norm_type is m (for
\* peak: 'peak ' and the reference m/z).
C3_NormalizeSetsMode ==
    LastScaling =>
        /\ Cur.is_norm
        /\ ~Cur.is_centroid
        /\ Cur.norm_type =
              Label(last.arg[1],
                    IF last.arg[1] = "peak" THEN last.arg[2] ELSE NoRef)

\* C4: normalize and centroid_data each take as input the spectra that are
\* authoritative at the moment of the call: a successful centroid_data
\* leaves the centroids of get_all_spectra(), a scaling normalize leaves the
\* rescaled get_all_spectra().  (Stated for a normalize made on a dataset
\* that is not normalized yet, where "the current spectra" is not in doubt.)
C4_TransformsConsumeCurrent ==
    [][/\ (~Cur.is_norm /\ last'.op = "normalize" /\ last'.arg[1] \in Scaling)
            => Cur'.new_spectra =
                   MapSeq(get_all_spectra(Cur),
                          LAMBDA sp : normalize_one(sp, last'.arg[1],
                                                    last'.arg[2], DefaultTol))
       /\ (last'.op = "centroid_data" /\ last'.err = "")
            => Cur'.new_spectra =
                   centroid_loop(get_all_spectra(Cur), 1, <<>>).list]_vars

\* the ion image computed from the list get_all_spectra() returns
ImageOfCurrent(self, mz, tol) ==
    LET r == image_loop(self.p,
                        [k \in 1..Len(self.p.coordinates) |->
                            PyIndex(get_all_spectra(self), k - 1, EmptySpectrum)],
                        mz, tol, 0, np_zeros(self.p.max_y, self.p.max_x))
    IN  IF r.err = "IndexError" THEN Raise("RuntimeError", r.val) ELSE r

\* the ROIs the ROI aggregator is probed with: sequences of (y, x)
ProbeRois == { <<<<1, x>>>> : x \in 0..NumSpectra }

\* C5: in every reachable state get_ion_image and the whole-dataset and ROI
\* aggregators compute their result from exactly the spectra
\* get_all_spectra() returns at that moment, also when no overlay is active
\* and a filter has changed the stored spectra.
C5_ReadersUseCurrent ==
    /\ \A mz \in ProbeMzs :
          get_ion_image(Cur, mz, DefaultTol) = ImageOfCurrent(Cur, mz, DefaultTol)
    /\ get_true_mean_spec(Cur) = true_mean_of(get_all_spectra(Cur))
    /\ \A roi \in ProbeRois :
          LET r == spectre_du_roi(Cur, roi)
              index == roi_index(Cur, roi)
          IN  r.err = "" =>
                 r.val = groupby_sum([k \in 1..Len(index) |->
                                         get_all_spectra(Cur)[index[k] + 1]])

\* the steps of normalize add up to the call: the run that ends without a
\* message leaves what normalize and the hotspot filter make of the object
StepsMakeNormalize ==
    [][(ui.pc = "normalize" /\ ui'.pc = "idle" /\ last'.err = "")
        => \E empty_raises \in BOOLEAN :
              Cur' = FilterPart("Hotspot removal", FALSE,
                                normalize(Cur, ui.norm, ui.mz0, DefaultTol),
                                ui.hot, empty_raises).self]_vars

\* C6: when normalize runs on the GUI thread while a whole-dataset worker is
\* in flight (and no filter ran meanwhile), the spectrum the worker returns is
\* the aggregate of one complete spectrum set of the dataset: the one that
\* was authoritative at the dispatch or one a later run has completed; never
\* of a part of an overlay that is being rebuilt.
C6_WorkerReadsOneSet ==
    \A i \in DOMAIN workers :
        (/\ workers[i].kind = "mean"
         /\ workers[i].pc = "returned"
         /\ ~workers[i].filtered)
        => \E s \in workers[i].seen : true_mean_of(s) = Ok(workers[i].result)

\* C7: every entry of the mean-spectrum cache is stored under the label the
\* dataset had when its worker was dispatched; a request under a label that
\* is in the cache starts no worker; handling the result of an ROI worker
\* leaves the cache as it is.
C7_CacheKeyedAtDispatch ==
    [][/\ \A l \in DOMAIN mean_spectra' : mean_origin'[l].label = l
       /\ (/\ Len(workers') > Len(workers)
           /\ workers'[Len(workers')].kind = "mean")
            => objects[sel_ms_object].norm_type \notin DOMAIN mean_spectra
       /\ (\E i \in DOMAIN workers :
              workers[i].kind = "roi" /\ workers' = RemoveAt(workers, i))
            => mean_spectra' = mean_spectra]_vars

\* C8: while a successfully loaded dataset is shown, every entry of the
\* mean-spectrum cache was computed from that dataset, also when a worker
\* started on the previous dataset returns after the load.
C8_CacheOfLoadedDataset ==
    sel_ms_object # 0 =>
        \A l \in DOMAIN mean_origin : mean_origin[l].obj = sel_ms_object

\* C9: a run of preprocess that ends with the message for a noise-reduction
\* or hotspot-removal value that is not a number or not in [0, 100] leaves
\* the dataset (stored spectra, overlay, flags, label) as it was when the
\* button was pressed.
C9_InvalidParameterNoChange ==
    [][(/\ ui'.runs = ui.runs + 1
        /\ last'.err \in InvalidParameter
        /\ ms_object # 0)
       => Cur' = IF ui.pc = "idle" THEN Cur ELSE ui.pre]_vars


\* some spectrum on plane z = 1 lies outside the declared pixel extents
OutsideExtents(self) ==
    \E i \in 1..Len(self.coordinates) :
        /\ self.coordinates[i][3] = 1
        /\ \/ self.coordinates[i][1] \notin 1..self.p.max_x
           \/ self.coordinates[i][2] \notin 1..self.p.max_y

\* C10: whenever some spectrum with z = 1 has a coordinate outside
\* 1..max-pixels-x by 1..max-pixels-y, get_ion_image raises the metadata
\* error (RuntimeError 'metadata is incorrect') and returns no image.
C10_OutsideExtentsRaises ==
    OutsideExtents(Cur) =>
        \A mz \in ProbeMzs :
            get_ion_image(Cur, mz, DefaultTol) = Raise("RuntimeError", <<>>)

\* the m/z values get_ion_image is probed with: the samples of a loaded
\* spectrum, a value between two samples and a value above all of them
ImageMzs == ProbeMzs \cup {Da + Da \div 20, 2 * Da}

\* spectrum sp has a point in [mz - tol, mz + tol]
HasPointIn(sp, mz, tol) ==
    \E k \in 1..Len(sp.mz) : sp.mz[k] >= mz - tol /\ sp.mz[k] <= mz + tol

\* the window [mz - tol, mz + tol] ends before the second m/z of sp
EndsBeforeSecond(sp, mz, tol) ==
    Len(sp.mz) = 1 \/ (Len(sp.mz) > 1 /\ mz + tol < sp.mz[2])

\* the spectra of plane z = 1 at pixel (y, x), as get_all_spectra() has them
SpectraAt(self, y, x) ==
    { get_all_spectra(self)[i] :
        i \in { j \in 1..Len(get_all_spectra(self)) :
                  j <= Len(self.coordinates) /\ self.coordinates[j] = <<x, y, 1>> } }

\* C11: on a dataset whose coordinates lie within the declared extents,
\* get_ion_image(mz, tol) raises nothing and returns an array of max-pixels-y
\* rows by max-pixels-x columns; a pixel at which no spectrum of plane z = 1
\* lies is 0, and a pixel is non-zero only if a spectrum at it has a point
\* with m/z in [mz - tol, mz + tol] (examined for windows that reach the
\* second m/z of the spectrum; below it the result is the choice of the
\* library's _bisect_spectrum), so that the image is all zero when no
\* spectrum has a matching point.
C11_IonImageBounds ==
    ~OutsideExtents(Cur) =>
        \A mz \in ImageMzs :
            LET r == get_ion_image(Cur, mz, DefaultTol)
            IN  /\ r.err = ""
                /\ Len(r.val) = Cur.p.max_y
                /\ \A y \in 1..Len(r.val) :
                      /\ Len(r.val[y]) = Cur.p.max_x
                      /\ \A x \in 1..Len(r.val[y]) :
                            r.val[y][x] # 0 =>
                                \E sp \in SpectraAt(Cur, y, x) :
                                    \/ HasPointIn(sp, mz, DefaultTol)
                                    \/ EndsBeforeSecond(sp, mz, DefaultTol)

\* P: the number of maximal runs of consecutive non-zero intensities
NumRuns(ints) ==
    Cardinality({k \in 1..Len(ints) :
                    NonZero(ints[k]) /\ (k = 1 \/ ~NonZero(ints[k - 1]))})

\* C12: centroid_data ends without an exception and leaves, for every
\* spectrum it read, a centroid spectrum with as many (m/z, intensity) pairs
\* as the spectrum has maximal runs of consecutive non-zero intensities (a
\* run may touch the first or the last sample); none for an all-zero one.
C12_CentroidCount ==
    [][last'.op = "centroid_data"
        => /\ last'.err = ""
           /\ Len(Cur'.new_spectra) = Len(centroid_input(Cur))
           /\ \A k \in 1..Len(Cur'.new_spectra) :
                 /\ Len(Cur'.new_spectra[k].mz) = NumRuns(centroid_input(Cur)[k].int)
                 /\ Len(Cur'.new_spectra[k].int) = NumRuns(centroid_input(Cur)[k].int)]_vars

\* the last call was normalize with method tic, rms or median
LastStatistic == last.op = "normalize" /\ last.arg[1] \in {"tic", "rms", "median"}

AllZero(ints) == \A j \in 1..Len(ints) : ints[j] = 0

CurrentIntensities(self) ==
    Concat([k \in 1..Len(get_all_spectra(self)) |-> get_all_spectra(self)[k].int])

\* the p-th percentile of the authoritative intensities (the padding zeros
\* of profile spectra left out); NaN when there is no intensity to take
PercentileOfCurrent(self, p) ==
    LET sample == IF self.is_centroid THEN CurrentIntensities(self)
                  ELSE NonZeroOf(CurrentIntensities(self))
    IN  IF sample = <<>> THEN NaN ELSE np_percentile(sample, p)

NonZeroCount(ints) == Cardinality({j \in 1..Len(ints) : NonZero(ints[j])})

\* C14: noise_reduction(p) takes limit as the p-th percentile of the
\* authoritative intensities and, in every authoritative spectrum, sets to
\* zero exactly the non-zero intensities strictly below limit; every other
\* intensity, every m/z array and both mode flags are unchanged, and no
\* spectrum's count of non-zero points increases.  The call raises only when
\* there is no intensity to take the percentile of, and then changes nothing.
C14_NoiseReduction ==
    [][last'.op = "noise_reduction" =>
        LET limit == PercentileOfCurrent(Cur, last'.arg[1])
            before == get_all_spectra(Cur)
            after == get_all_spectra(Cur')
        IN  /\ Cur'.is_norm = Cur.is_norm
            /\ Cur'.is_centroid = Cur.is_centroid
            /\ HasOverlay(Cur) => Cur'.spectra = Cur.spectra
            /\ Len(after) = Len(before)
            /\ \A k \in 1..Len(before) :
                  /\ after[k].mz = before[k].mz
                  /\ Len(after[k].int) = Len(before[k].int)
                  /\ NonZeroCount(after[k].int) <= NonZeroCount(before[k].int)
                  /\ \A j \in 1..Len(before[k].int) :
                        after[k].int[j] =
                            IF last'.err = "" /\ before[k].int[j] # 0
                               /\ FLess(before[k].int[j], limit)
                            THEN 0 ELSE before[k].int[j]
            /\ last'.err # "" => IsNaN(limit)
    ]_vars

\* noise_reduction has set an intensity of the loaded file to zero and left
\* another one non-zero
C14_Witness ==
    /\ last.op = "noise_reduction" /\ last.err = "" /\ nfilters = 1
    /\ ~HasOverlay(Cur)
    /\ \E k \in 1..Len(Cur.spectra) :
          \E j \in 1..Len(Cur.spectra[k].int) :
              Cur.p.spectra[k].int[j] # 0 /\ Cur.spectra[k].int[j] = 0
    /\ \E k \in 1..Len(Cur.spectra) :
          \E j \in 1..Len(Cur.spectra[k].int) : Cur.spectra[k].int[j] # 0

\* a <= b on floats (False as soon as one side is NaN)
FLessEq(a, b) == ~IsNaN(a) /\ ~IsNaN(b) /\ a <= b

\* C15: remove_hotspots(p) that ends without an exception has replaced every
\* authoritative intensity greater than limit (the p-th percentile before
\* the call) by limit and left the others; afterwards every intensity is
\* <= limit and the p-th percentile taken again is <= limit.
C15_HotspotsClipped ==
    [][last'.op = "remove_hotspots" /\ last'.err = "" =>
        LET limit == PercentileOfCurrent(Cur, last'.arg[1])
            before == get_all_spectra(Cur)
            after == get_all_spectra(Cur')
        IN  /\ Len(after) = Len(before)
            /\ \A k \in 1..Len(before) :
                  /\ Len(after[k].int) = Len(before[k].int)
                  /\ \A j \in 1..Len(before[k].int) :
                        /\ after[k].int[j] =
                              IF FGreater(before[k].int[j], limit)
                              THEN limit ELSE before[k].int[j]
                        /\ FLessEq(after[k].int[j], limit)
            /\ FLessEq(PercentileOfCurrent(Cur', last'.arg[1]), limit)
    ]_vars

\* the ROIs the aggregator is asked for: one pixel, two in either order, or
\* one pixel listed twice
AggRois ==
    ProbeRois \cup
    { <<<<1, 1>>, <<1, 2>>>>, <<<<1, 2>>, <<1, 1>>>>, <<<<1, 1>>, <<1, 1>>>> }

\* key is m rounded to 4 decimals: the nearest multiple of 0.0001, the even
\* one when m is half-way
IsRounded(m, key) ==
    LET d == IF key >= m THEN key - m ELSE m - key
    IN  /\ key % MzPerStep = 0
        /\ 2 * d <= MzPerStep
        /\ (2 * d = MzPerStep => (key \div MzPerStep) % 2 = 0)

\* the sum of the intensities of the points of the spectra that fall into
\* the bucket key
BucketSum(spectra, key) ==
    SumSeq(Concat([i \in 1..Len(spectra) |->
                      [k \in 1..Len(spectra[i].mz) |->
                          IF IsRounded(spectra[i].mz[k], key)
                          THEN spectra[i].int[k] ELSE 0]]))

\* every m/z of the spectra is a number (a Spectrum has ordered m/z)
OrderedMz(spectra) ==
    \A i \in 1..Len(spectra) : \A k \in 1..Len(spectra[i].mz) :
        ~IsNaN(spectra[i].mz[k])

\* result is the bucket-wise sum of the contributing spectra
IsAggregateOf(result, spectra) ==
    /\ Len(result.int) = Len(result.mz)
    /\ \A j \in 1..(Len(result.mz) - 1) : result.mz[j] < result.mz[j + 1]
    /\ \A i \in 1..Len(spectra) : \A k \in 1..Len(spectra[i].mz) :
          \E j \in 1..Len(result.mz) : IsRounded(spectra[i].mz[k], result.mz[j])
    /\ \A j \in 1..Len(result.mz) :
          /\ \E i \in 1..Len(spectra) : \E k \in 1..Len(spectra[i].mz) :
                IsRounded(spectra[i].mz[k], result.mz[j])
          /\ result.int[j] = BucketSum(spectra, result.mz[j])

\* the spectra of self the pixels of roi map to: one contribution for every
\* pixel listed, also when a pixel is listed twice
RoiSpectra(self, roi) ==
    LET all == get_all_spectra(self)
        hit == [k \in 1..Len(roi) |-> get_index(self, roi[k][1], roi[k][2])]
    IN  Select([k \in 1..Len(roi) |->
                   IF hit[k] >= 0 /\ hit[k] < Len(all) THEN all[hit[k] + 1]
                   ELSE EmptySpectrum],
               [k \in 1..Len(roi) |-> hit[k] >= 0])

\* the three spectra {100: 5, 101: 10}, {100: 3, 101: 7}, {101: 2}
ExampleSpectra ==
    << Spectrum(<<100 * Da, 101 * Da>>, <<5 * IntScale, 10 * IntScale>>),
       Spectrum(<<100 * Da, 101 * Da>>, <<3 * IntScale, 7 * IntScale>>),
       Spectrum(<<101 * Da>>, <<2 * IntScale>>) >>

C17_BatchedEqualsSinglePass ==
    get_true_mean_spec(Cur).err = ""
        => get_true_mean_spec_batched(Cur) = get_true_mean_spec(Cur)

\* no pixel of roi is the coordinate of a spectrum of o on plane 1
NoSpectrumInRoi(o, roi) ==
    ~\E k \in 1..Len(roi), i \in 1..Len(o.coordinates) :
        o.coordinates[i] = <<roi[k][2], roi[k][1], 1>>

\* the thread of the ROI worker i runs in this step
RoiThreadRuns(i) ==
    /\ i \in DOMAIN workers
    /\ workers[i].kind = "roi"
    /\ workers[i].pc = "start"
    /\ \/ workers' = RemoveAt(workers, i)
       \/ (Len(workers') = Len(workers) /\ workers'[i].pc # "start")

\* C18: when no pixel of the ROI maps to a spectrum (the ROI is empty or
\* every get_index lookup gives -1), the thread of spectre_du_roi ends with
\* its exception: no worker is left to hand a spectrum to
\* display_roi_mean_spectrum, and the current spectrum and the cache of mean
\* spectra are as before.  No worker that returned a spectrum has such a ROI.
C18_EmptyRoiNoDisplay ==
    [][/\ \A i \in 1..MaxWorkers :
             (RoiThreadRuns(i) /\ NoSpectrumInRoi(objects[workers[i].obj], workers[i].roi))
                 => /\ spectre_du_roi(objects[workers[i].obj], workers[i].roi).err
                          = "ValueError"
                    /\ workers' = RemoveAt(workers, i)
                    /\ current_spectrum' = current_spectrum
                    /\ mean_spectra' = mean_spectra
       /\ \A i \in DOMAIN workers' :
             (workers'[i].kind = "roi" /\ workers'[i].pc = "returned")
                 => ~NoSpectrumInRoi(objects'[workers'[i].obj], workers'[i].roi)
    ]_vars

\* a ROI worker is about to run on a ROI without spectrum, non-empty here,
\* while a spectrum is on display and the cache holds a mean spectrum
C18_Witness ==
    /\ Len(workers) = 1
    /\ workers[1].kind = "roi" /\ workers[1].pc = "start"
    /\ workers[1].roi # <<>>
    /\ NoSpectrumInRoi(objects[workers[1].obj], workers[1].roi)
    /\ current_spectrum.kind = "array"
    /\ DOMAIN mean_spectra # {}

\* the coordinates get_index is probed with
CoordProbe == (0 - 1)..(NumSpectra + 2)

\* the 0-based indices of the spectra at (x, y, 1)
IndicesAt(self, y, x) ==
    { i \in 0..(Len(self.coordinates) - 1) : self.coordinates[i + 1] = <<x, y, 1>> }

\* C19: get_index(y, x) is the index of the first spectrum whose coordinate
\* is (x, y, 1) and -1 when there is none (it raises nothing: it has a value
\* for every probe); an index i whose coordinate (x, y, 1) occurs only once
\* is what get_index(y, x) returns, and get_coordinates(i) gives (x, y, 1)
\* back.
C19_GetIndexFirst ==
    \A y \in CoordProbe, x \in CoordProbe :
        LET at == IndicesAt(Cur, y, x)
            i == get_index(Cur, y, x)
        IN  /\ i \in (0 - 1)..(Len(Cur.coordinates) - 1)
            /\ (at = {}) = (i = -1)
            /\ at # {} => (i \in at /\ \A j \in at : i <= j)
            /\ at # {} /\ Cardinality(at) = 1
                  => /\ at = {i}
                     /\ get_coordinates(Cur, i) = Ok(<<x, y, 1>>)

\* a dataset with two spectra on one coordinate, and a coordinate without
\* spectrum, after a transformation
C19_Witness ==
    /\ last.op # "init"
    /\ Cardinality(IndicesAt(Cur, 1, 1)) = 2
    /\ get_index(Cur, 1, 1) = 0
    /\ get_index(Cur, 1, 2) = -1

\* C20: check_centroid returns a boolean for every loaded dataset, after
\* every call: True when centroiding has run, or the middle spectrum's
\* minimum is > 0, or its minimum and median are both 0; False otherwise
\* when its median is > 0; never anything else.
C20_CheckCentroidBoolean ==
    LET intensities == Cur.spectra[(Cur.num_spectra \div 2) + 1].int
        min1 == np_min(intensities)
        median1 == np_median(intensities)
        centroid == Cur.is_centroid \/ min1 > 0 \/ (min1 = 0 /\ median1 = 0)
    IN  /\ check_centroid(Cur) \in {"True", "False"}
        /\ centroid => check_centroid(Cur) = "True"
        /\ (~centroid /\ median1 > 0) => check_centroid(Cur) = "False"

\* the manual rows whose key and value are both empty
EmptyRows(rows) ==
    {row \in 1..Len(rows) : rows[row].key = "" /\ rows[row].value = ""}

RunStarts(ints) ==
    {k \in 1..Len(ints) : NonZero(ints[k]) /\ (k = 1 \/ ~NonZero(ints[k - 1]))}

\* the samples of the run that starts at sample s
RunSamples(ints, s) ==
    {j \in s..Len(ints) : \A m \in s..j : NonZero(ints[m])}

\* the sum of a sequence of floats
FSum(s) == IF s = <<>> THEN 0 ELSE CumSum(s)[Len(s)]

\* (sum of mz[k] * intensity[k]) / (sum of intensity[k]) over a set of samples
WeightedMean(mz, ints, samples) ==
    LET sum_mz_int == FSum([k \in 1..Len(mz) |->
                               IF k \notin samples THEN 0
                               ELSE IF IsNaN(mz[k]) \/ IsNaN(ints[k]) THEN NaN
                               ELSE mz[k] * ints[k]])
        sum_int == FSum([k \in 1..Len(ints) |-> IF k \in samples THEN ints[k] ELSE 0])
    IN  IF IsNaN(sum_mz_int) \/ IsNaN(sum_int) \/ sum_int = 0 THEN NaN
        ELSE sum_mz_int \div sum_int

\* the m/z values of the centroid spectrum are the weighted means of the runs
IsCentroidOf(centroid, spectrum) ==
    /\ Len(centroid.mz) = Cardinality(RunStarts(spectrum.int))
    /\ \A s \in RunStarts(spectrum.int) :
          LET i == Cardinality({t \in RunStarts(spectrum.int) : t <= s})
          IN  centroid.mz[i] = WeightedMean(spectrum.mz, spectrum.int,
                                            RunSamples(spectrum.int, s))

\* C22: when centroid_data ends without an exception, the m/z of every
\* centroid is (sum of mz[k] * intensity[k]) / (sum of intensity[k]) over all
\* samples of its run, for a run that begins at the first sample or ends at
\* the last sample too.
C22_CentroidWeightedMean ==
    [][(last'.op = "centroid_data" /\ last'.err = "")
        => \A k \in 1..Len(Cur'.new_spectra) :
              IsCentroidOf(Cur'.new_spectra[k], centroid_input(Cur)[k])]_vars

\* a list of n spectra, each one different from the others
ProbeSpectra(n) == [i \in 1..n |-> Spectrum(<<(100 + i) * Da>>, <<IntScale>>)]

\* the dataset sizes probed: up to two full batches
ProbeSizes == 1..(2 * BatchSize)

\* C23: for every number of spectra N >= 1 the batched aggregation splits
\* the spectra 0..N-1 into consecutive batches of at most BatchSize spectra,
\* every spectrum in exactly one batch, every batch handed to a pool worker
\* holds at least one spectrum, and the aggregation ends with a result.
C23_BatchesNonEmpty ==
    /\ \A n \in ProbeSizes :
          LET spectra2 == batches(ProbeSpectra(n), n)
          IN  /\ Concat(spectra2) = ProbeSpectra(n)
              /\ \A i \in 1..Len(spectra2) :
                    /\ Len(spectra2[i]) <= BatchSize
                    /\ spectra2[i] # <<>>
                    /\ mean_spec1(spectra2[i]).err = ""
    /\ Cur.num_spectra >= 1 => get_true_mean_spec_batched(Cur).err = ""

\* C24: after any sequence of normalize, centroid_data, noise_reduction and
\* remove_hotspots calls the raw spectrum list of the dataset equals what
\* the loader supplied.
C24_RawSpectraKept == Cur.spectra = Cur.p.spectra

\* calculate_true_mean_spectrum would serve the request from the cache
ServedFromCache ==
    /\ ui.pc = "idle"
    /\ enabled
    /\ sel_ms_object # 0
    /\ objects[sel_ms_object].norm_type \in DOMAIN mean_spectra

\* C25: whenever calculate_true_mean_spectrum serves a spectrum from the
\* cache, that spectrum is the aggregation of the spectra that are
\* authoritative for the dataset at that moment.
C25_CacheServesCurrent ==
    ServedFromCache =>
        get_true_mean_spec(objects[sel_ms_object]) =
            Ok(mean_spectra[objects[sel_ms_object].norm_type])

\* the spectra (0-based) the pixels of roi map to, each one once, ascending
RoiHits(self, roi) ==
    SetToSortedSeq({get_index(self, roi[k][1], roi[k][2]) : k \in 1..Len(roi)}
                   \ {0 - 1})

\* C26: the ROI mean spectrum sums each spectrum some pixel of the ROI maps
\* to exactly once, however many of the listed ROI coordinates map to it.
C26_RoiSumsOnce ==
    \A roi \in AggRois :
        spectre_du_roi(Cur, roi).err = ""
            => spectre_du_roi(Cur, roi).val =
                   groupby_sum([k \in 1..Len(RoiHits(Cur, roi)) |->
                                   get_all_spectra(Cur)[RoiHits(Cur, roi)[k] + 1]])

\* the points (spectrum, sample) of the current spectra the filter set to 0
Zeroed(before, filtered) ==
    {<<k, j>> \in (1..NumSpectra) \X (1..MaxLen) :
        /\ k <= Len(get_all_spectra(before))
        /\ j <= Len(get_all_spectra(before)[k].int)
        /\ get_all_spectra(before)[k].int[j] # 0
        /\ get_all_spectra(filtered)[k].int[j] = 0}

\* the point (spectrum k, sample j) of the current spectra is zero
ZeroAt(self, k, j) ==
    /\ k <= Len(get_all_spectra(self))
    /\ j <= Len(get_all_spectra(self)[k].int)
    /\ get_all_spectra(self)[k].int[j] = 0

\* C27: when one preprocess run applies noise reduction and then a
\* normalization (tic, rms, median or peak), every point the noise reduction
\* set to zero is zero in get_all_spectra() after the run, whatever the
\* state of the dataset before the run.
C27_NoiseReductionKept ==
    \A norm \in Scaling, empty_raises \in EmptyOutcomes(Cur) :
        LET n == FilterPart("Noise reduction", FALSE, Cur,
                            Param(TRUE, "50"), empty_raises)
            after == normalize(n.self, norm, DefaultMz0, DefaultTol)
        IN  n.ran => \A p \in Zeroed(Cur, n.self) : ZeroAt(after, p[1], p[2])

\* some spectrum has a coordinate outside the declared pixel extents
CoordinateOutside(self) ==
    \E i \in 1..Len(self.coordinates) :
        \/ self.coordinates[i][1] \notin 1..self.p.max_x
        \/ self.coordinates[i][2] \notin 1..self.p.max_y

\* C28: get_ion_image raises the error 'metadata is incorrect' only when
\* some spectrum coordinate lies outside the declared pixel extents.
C28_MetadataErrorOnlyOutside ==
    \A mz \in ImageMzs :
        get_ion_image(Cur, mz, DefaultTol).err = "RuntimeError"
            => CoordinateOutside(Cur)

\* C29: after any sequence of file loads (successful, cancelled, or failing
\* with the metadata error), whenever the Execute-preprocessing,
\* View-Metadata, image, ROI and true-mean buttons are enabled, ms_object
\* is a dataset (not None).
C29_EnabledImpliesDataset == enabled => ms_object # 0

\* no run of _open_file or preprocess and no worker thread is under way
NoRunUnderWay ==
    /\ ui.pc = "idle"
    /\ \A i \in DOMAIN workers : workers[i].pc # "read"

\* C30: every run of _open_file, preprocess, get_true_mean_spec and
\* spectre_du_roi leaves the stack of override cursors at the depth it had
\* before, on every exit path: when no run is under way the stack is as it
\* was at the start, empty.
C30_CursorRestored == NoRunUnderWay => cursor = 0

====
